---------------------------- MODULE Spec2Model ----------------------------
(***************************************************************************)
(* AquaTimer (src/src/main.cpp): a 24-hour light schedule held as          *)
(* time/duty breakpoints, interpolated to a target duty and followed by a  *)
(* rate-limited fade of the PWM output.                                    *)
(*                                                                         *)
(* The sketch computes in IEEE-754 binary32 ("float").  A float is the     *)
(* record [s, m, e] of value s * m * 2^e with s in {1,-1} and m either 0   *)
(* (then s = 1, e = 0) or in [2^23, 2^24).  Every operation rounds to      *)
(* nearest, ties to even, as the hardware does.  Negative zero compares    *)
(* equal to zero everywhere the sketch uses it and is represented as zero. *)
(* Subnormals, infinities and NaN lie outside the magnitudes the sketch    *)
(* produces from the bounded inputs below.                                 *)
(***************************************************************************)
EXTENDS Integers, Sequences, FiniteSets, TLC

---------------------------------------------------------------------------
(* binary32 arithmetic                                                     *)

MantBits == 24

MantMin == 2^(MantBits - 1)

MantMax == 2^MantBits

F32Zero == [s |-> 1, m |-> 0, e |-> 0]

AbsInt(n) == IF n < 0 THEN -n ELSE n

RECURSIVE BitLen(_)
BitLen(n) == IF n = 0 THEN 0 ELSE 1 + BitLen(n \div 2)

(* The float nearest to s * M * 2^e (+ a nonzero tail below M's last bit    *)
(* when sticky), ties to even, for M of n bits.  Callers give M < 2^31, and *)
(* M >= 2^24 when sticky.                                                   *)
F32RoundBits(s, M, e, sticky, n) ==
  IF n <= MantBits
  THEN [s |-> s, m |-> M * 2^(MantBits - n), e |-> e - (MantBits - n)]
  ELSE LET k    == n - MantBits
           q    == M \div 2^k
           r    == M % 2^k
           half == 2^(k - 1)
           up   == \/ r > half
                   \/ r = half /\ sticky
                   \/ r = half /\ ~sticky /\ q % 2 = 1
           q2   == IF up THEN q + 1 ELSE q
       IN IF q2 = MantMax
          THEN [s |-> s, m |-> MantMin, e |-> e + k + 1]
          ELSE [s |-> s, m |-> q2, e |-> e + k]

F32Round(s, M, e, sticky) ==
  IF M = 0 THEN F32Zero ELSE F32RoundBits(s, M, e, sticky, BitLen(M))

(* (float)n for an int n; -2^31, whose magnitude is no int, is a float *)
F32FromInt(n) ==
  IF n < -2147483647 THEN [s |-> -1, m |-> MantMin, e |-> 8]
  ELSE F32Round(IF n < 0 THEN -1 ELSE 1, AbsInt(n), 0, FALSE)

F32Neg(a) == IF a.m = 0 THEN a ELSE [a EXCEPT !.s = -a.s]

F32Abs(a) == [a EXCEPT !.s = 1]

(* |a| < |b| *)
F32MagLt(a, b) ==
  IF a.m = 0 THEN b.m # 0
  ELSE IF b.m = 0 THEN FALSE
  ELSE a.e < b.e \/ (a.e = b.e /\ a.m < b.m)

F32Lt(a, b) ==
  IF a.s = 1 /\ b.s = 1 THEN F32MagLt(a, b)
  ELSE IF a.s = -1 /\ b.s = -1 THEN F32MagLt(b, a)
  ELSE a.s = -1

F32Le(a, b) == a = b \/ F32Lt(a, b)

(* |a| + |b| with sign s, for |a| >= |b| > 0: three guard bits and a sticky *)
F32AddMag(s, a, b) ==
  LET d   == a.e - b.e
      A   == a.m * 8
      B8  == b.m * 8
      B   == IF d > 27 THEN 0 ELSE B8 \div 2^d
      st  == IF d > 27 THEN TRUE ELSE B8 % 2^d # 0
  IN F32Round(s, A + B, a.e - 3, st)

(* |a| - |b| with sign s, for |a| > |b| > 0 *)
F32SubMag(s, a, b) ==
  LET d   == a.e - b.e
      A   == a.m * 8
      B8  == b.m * 8
      B   == IF d > 27 THEN 0 ELSE B8 \div 2^d
      st  == IF d > 27 THEN TRUE ELSE B8 % 2^d # 0
  IN F32Round(s, IF st THEN A - B - 1 ELSE A - B, a.e - 3, st)

F32Add(a, b) ==
  IF a.m = 0 THEN b
  ELSE IF b.m = 0 THEN a
  ELSE IF a.s = b.s
       THEN IF F32MagLt(a, b) THEN F32AddMag(a.s, b, a) ELSE F32AddMag(a.s, a, b)
       ELSE IF a.m = b.m /\ a.e = b.e THEN F32Zero
            ELSE IF F32MagLt(a, b) THEN F32SubMag(b.s, b, a)
                 ELSE F32SubMag(a.s, a, b)

F32Sub(a, b) == F32Add(a, F32Neg(b))

(* n more quotient bits of r / d by long division: <<quotient, remainder>> *)
RECURSIVE DivBits(_, _, _, _)
DivBits(q, r, d, n) ==
  IF n = 0 THEN <<q, r>>
  ELSE IF 2 * r >= d THEN DivBits(2 * q + 1, 2 * r - d, d, n - 1)
       ELSE DivBits(2 * q, 2 * r, d, n - 1)

(* the float nearest a / b, given 26 more bits qr of the quotient of the    *)
(* mantissas                                                                *)
F32DivRound(a, b, qr) == F32Round(a.s * b.s, qr[1], a.e - b.e - 26, qr[2] # 0)

(* a / b for b # 0 *)
F32Div(a, b) ==
  IF a.m = 0 THEN F32Zero
  ELSE F32DivRound(a, b, DivBits(a.m \div b.m, a.m % b.m, b.m, 26))

(* a * b: the 48-bit product of the mantissas in 12-bit limbs *)
F32Mul(a, b) ==
  IF a.m = 0 \/ b.m = 0 THEN F32Zero
  ELSE LET ah   == a.m \div 4096
           al   == a.m % 4096
           bh   == b.m \div 4096
           bl   == b.m % 4096
           p0   == al * bl
           mid  == ah * bl + al * bh + (p0 \div 4096)
           high == ah * bh + (mid \div 4096)
           m12  == mid % 4096
       IN F32Round(a.s * b.s, high * 8 + (m12 \div 512),
                   a.e + b.e + 21, (m12 % 512 # 0) \/ (p0 % 4096 # 0))

---------------------------------------------------------------------------
(* Wide naturals, for the values that exceed 31 bits (the mantissa of a     *)
(* double, the product of two float mantissas): Limbs limbs of LimbBits     *)
(* bits, the least significant at index 0                                   *)

LimbBits == 24

Limbs == 6

LimbBase == 2^LimbBits

LimbIndex == 0..(Limbs - 1)

WideZero == [i \in LimbIndex |-> 0]

Limb(x, i) == IF i \in LimbIndex THEN x[i] ELSE 0

(* 0 <= n < 2^31 *)
WideOfInt(n) ==
  [i \in LimbIndex |->
     IF i = 0 THEN n % LimbBase ELSE IF i = 1 THEN n \div LimbBase ELSE 0]

(* the value of a wide below 2^31 *)
IntOf(x) == x[0] + x[1] * LimbBase

(* x * 2^s, the product below 2^(LimbBits * Limbs) *)
ShiftLeft(x, s) ==
  LET q == s \div LimbBits
      r == s % LimbBits
  IN [i \in LimbIndex |->
        (Limb(x, i - q) % 2^(LimbBits - r)) * 2^r
          + (Limb(x, i - q - 1) \div 2^(LimbBits - r))]

(* x \div 2^s *)
ShiftRight(x, s) ==
  LET q == s \div LimbBits
      r == s % LimbBits
  IN [i \in LimbIndex |->
        (Limb(x, i + q) \div 2^r)
          + (Limb(x, i + q + 1) % 2^r) * 2^(LimbBits - r)]

(* the s lowest bits of x are 0 *)
LowBitsZero(x, s) ==
  /\ \A i \in LimbIndex : i < s \div LimbBits => x[i] = 0
  /\ Limb(x, s \div LimbBits) % 2^(s % LimbBits) = 0

(* bit j of x *)
Bit(x, j) == (Limb(x, j \div LimbBits) \div 2^(j % LimbBits)) % 2

RECURSIVE CarryInto(_, _, _)
CarryInto(a, b, i) ==
  IF i = 0 THEN 0
  ELSE (a[i - 1] + b[i - 1] + CarryInto(a, b, i - 1)) \div LimbBase

WideAdd(a, b) ==
  [i \in LimbIndex |-> (a[i] + b[i] + CarryInto(a, b, i)) % LimbBase]

RECURSIVE BorrowInto(_, _, _)
BorrowInto(a, b, i) ==
  IF i = 0 THEN 0
  ELSE IF a[i - 1] - b[i - 1] - BorrowInto(a, b, i - 1) < 0 THEN 1 ELSE 0

(* a - b for a >= b *)
WideSub(a, b) ==
  [i \in LimbIndex |-> (a[i] - b[i] - BorrowInto(a, b, i)) % LimbBase]

WideLt(a, b) ==
  \E i \in LimbIndex :
    a[i] < b[i] /\ \A j \in LimbIndex : j > i => a[j] = b[j]

TopLimb(x) ==
  CHOOSE i \in LimbIndex : x[i] # 0 /\ \A j \in LimbIndex : j > i => x[j] = 0

WideBitLen(x) ==
  IF x = WideZero THEN 0 ELSE LimbBits * TopLimb(x) + BitLen(x[TopLimb(x)])

(* long division by d < 128: the remainder left after the limbs from the    *)
(* top down to i                                                            *)
RECURSIVE RemFrom(_, _, _)
RemFrom(x, d, i) ==
  IF i = Limbs THEN 0 ELSE (RemFrom(x, d, i + 1) * LimbBase + x[i]) % d

WideDiv(x, d) ==
  [q |-> [i \in LimbIndex |-> (RemFrom(x, d, i + 1) * LimbBase + x[i]) \div d],
   r |-> RemFrom(x, d, 0)]

(* x of n > p bits (followed by a nonzero tail when sticky) rounded to p    *)
(* bits, ties to even: [m, k] of value m * 2^k                              *)
RoundDropping(x, sticky, k, q) ==
  IF /\ Bit(x, k - 1) = 1
     /\ (sticky \/ ~LowBitsZero(x, k - 1) \/ q[0] % 2 = 1)
  THEN [m |-> WideAdd(q, WideOfInt(1)), k |-> k]
  ELSE [m |-> q, k |-> k]

(* callers give a sticky x of more than p bits *)
RoundWide(x, sticky, p) ==
  LET n == WideBitLen(x)
  IN IF n <= p THEN [m |-> x, k |-> 0]
     ELSE RoundDropping(x, sticky, n - p, ShiftRight(x, n - p))

(* the float nearest s * r.m * 2^(e + r.k), for r.m of at most 25 bits *)
F32OfRounded(s, r, e) == F32Round(s, IntOf(r.m), e + r.k, FALSE)

(* the float nearest s * x * 2^e (+ a tail when sticky) *)
F32OfWide(s, x, e, sticky) == F32OfRounded(s, RoundWide(x, sticky, MantBits), e)

(* the 48-bit product of two mantissas, from 12-bit limbs *)
WideProduct(x, y) ==
  WideAdd(ShiftLeft(WideOfInt((x \div 4096) * (y \div 4096)), 24),
          WideAdd(ShiftLeft(WideOfInt((x \div 4096) * (y % 4096)
                                        + (x % 4096) * (y \div 4096)), 12),
                  WideOfInt((x % 4096) * (y % 4096))))

(* exponents up to FmaWindow apart are aligned exactly *)
FmaWindow == 72

(* the float nearest sp * P + sc * C, both in units of 2^e *)
FmaSum(sp, P, sc, C, e) ==
  IF sp = sc THEN F32OfWide(sp, WideAdd(P, C), e, FALSE)
  ELSE IF WideLt(C, P) THEN F32OfWide(sp, WideSub(P, C), e, FALSE)
  ELSE IF WideLt(P, C) THEN F32OfWide(sc, WideSub(C, P), e, FALSE)
  ELSE F32Zero

(* the float nearest sb * B * 2^e plus a term of sign st that lies below    *)
(* 2^(e - 2): the term only decides the direction of the rounding           *)
FmaFar(sb, B, st, e) ==
  IF sb = st THEN F32OfWide(sb, ShiftLeft(B, 2), e - 2, TRUE)
  ELSE F32OfWide(sb, WideSub(ShiftLeft(B, 2), WideOfInt(1)), e - 2, TRUE)

(* fmaf(a, b, c): a * b + c rounded once *)
F32Fma(a, b, c) ==
  IF a.m = 0 \/ b.m = 0 THEN c
  ELSE IF c.m = 0 THEN F32Mul(a, b)
  ELSE IF a.e + b.e <= c.e
       THEN IF c.e - (a.e + b.e) <= FmaWindow
            THEN FmaSum(a.s * b.s, WideProduct(a.m, b.m), c.s,
                        ShiftLeft(WideOfInt(c.m), c.e - (a.e + b.e)), a.e + b.e)
            ELSE FmaFar(c.s, WideOfInt(c.m), a.s * b.s, c.e)
       ELSE IF a.e + b.e - c.e <= FmaWindow
            THEN FmaSum(a.s * b.s,
                        ShiftLeft(WideProduct(a.m, b.m), a.e + b.e - c.e),
                        c.s, WideOfInt(c.m), c.e)
            ELSE FmaFar(a.s * b.s, WideProduct(a.m, b.m), c.s, a.e + b.e)

(* the bits of the mantissa of a double *)
DoubleBits == 53

(* fraction bits carried by the quotient of a long division *)
FracBits == 64

---------------------------------------------------------------------------
(* Arduino String: a sequence of one-character strings                      *)

Digits == <<"0", "1", "2", "3", "4", "5", "6", "7", "8", "9">>

IsDigit(c) == \E i \in 1..Len(Digits) : Digits[i] = c

DigitVal(c) == (CHOOSE i \in 1..Len(Digits) : Digits[i] = c) - 1

(* String::indexOf(ch): the 0-based position of the first ch, or -1 *)
indexOf(str, ch) ==
  IF \E i \in 1..Len(str) : str[i] = ch
  THEN (CHOOSE i \in 1..Len(str) : str[i] = ch /\ \A j \in 1..(i - 1) : str[j] # ch) - 1
  ELSE -1

(* String::substring(from, to): the characters at 0-based from .. to-1 *)
substring(str, from, to) ==
  IF from >= to THEN <<>> ELSE SubSeq(str, from + 1, to)

(* the characters isspace() accepts; the vertical tab has no escape and is  *)
(* written as the character itself                                          *)
Blanks == {" ", "\t", "\n", "", "\f", "\r"}

(* LONG_MAX and LONG_MIN of the 32-bit long *)
LongMax == 2147483647

LongMin == -LongMax - 1

(* strtol's accumulation of one more digit d onto acc, towards sgn: the     *)
(* value saturates at LONG_MAX or LONG_MIN                                  *)
AccDigit(acc, d, sgn) ==
  IF sgn = 1
  THEN IF acc > LongMax \div 10 \/ (acc = LongMax \div 10 /\ d > LongMax % 10)
       THEN LongMax
       ELSE 10 * acc + d
  ELSE IF \/ acc < -(LongMax \div 10)
          \/ acc = -(LongMax \div 10) /\ d > (LongMax % 10) + 1
       THEN LongMin
       ELSE 10 * acc - d

(* the value of the leading run of digits of str from 1-based position i,   *)
(* with the sign sgn                                                        *)
RECURSIVE AccDigits(_, _, _, _)
AccDigits(str, i, acc, sgn) ==
  IF i > Len(str) \/ ~IsDigit(str[i]) THEN acc
  ELSE AccDigits(str, i + 1, AccDigit(acc, DigitVal(str[i]), sgn), sgn)

(* String::toInt() is atol(): blanks, an optional sign, digits; 0 when no   *)
(* digits lead                                                              *)
RECURSIVE toInt(_)
toInt(str) ==
  IF str = <<>> THEN 0
  ELSE IF str[1] \in Blanks THEN toInt(Tail(str))
  ELSE IF str[1] = "-" THEN AccDigits(str, 2, 0, -1)
  ELSE IF str[1] = "+" THEN AccDigits(str, 2, 0, 1)
  ELSE AccDigits(str, 1, 0, 1)

---------------------------------------------------------------------------
(* Schedule text and the in-memory schedule                                 *)

(* A schedule text is what deserializeJson makes of it: an error, or the    *)
(* array of its objects, each with the "time" string and the "duty" int.    *)
(* Time strings are written out character by character.                     *)
Entry(t, d) == [time |-> t, duty |-> d]

(* "HH:00" *)
HourText(h) ==
  <<Digits[(h \div 10) + 1], Digits[(h % 10) + 1], ":", "0", "0">>

(* a truncated array: deserializeJson reports the error after it has read   *)
(* one element                                                              *)
MalformedText == [valid |-> FALSE, entries |-> <<Entry(HourText(12), 80)>>]

EmptyArrayText == [valid |-> TRUE, entries |-> <<>>]

ArrayText(es) == [valid |-> TRUE, entries |-> es]

(* A key of the preferences store: never written, or holding a value.      *)
(* preferences.getString/getInt(key, default): the stored value, or the     *)
(* default when the key was never written                                  *)
NoKey == [present |-> FALSE]

Stored(v) == [present |-> TRUE, value |-> v]

getString(stored, default) == IF stored.present THEN stored.value ELSE default

getInt(stored, default) == IF stored.present THEN stored.value ELSE default

(* |n| *)
Mag(n) ==
  IF n = LongMin THEN ShiftLeft(WideOfInt(1), 31) ELSE WideOfInt(AbsInt(n))

SignOf(n) == IF n < 0 THEN -1 ELSE 1

(* the double |minutes| / 60.0, as [m, k] of value m * 2^(k - FracBits):    *)
(* the quotient to FracBits fraction bits, its remainder the sticky tail    *)
MinutesOver60(minutes) ==
  LET q == WideDiv(ShiftLeft(Mag(minutes), FracBits), 60)
  IN RoundWide(q.q, q.r # 0, DoubleBits)

(* the float of the double nearest s * S * 2^e *)
FloatOfDouble(s, S, e) ==
  LET d == RoundWide(S, FALSE, DoubleBits)
  IN F32OfWide(s, d.m, e + d.k, FALSE)

(* the float of the double sum of sh * H * 2^e and sm * M * 2^e *)
DoubleSum(sh, H, sm, M, e) ==
  IF H = WideZero THEN FloatOfDouble(sm, M, e)
  ELSE IF sh = sm THEN FloatOfDouble(sh, WideAdd(H, M), e)
  ELSE IF WideLt(M, H) THEN FloatOfDouble(sh, WideSub(H, M), e)
  ELSE IF WideLt(H, M) THEN FloatOfDouble(sm, WideSub(M, H), e)
  ELSE F32Zero

(* hours + d1 in double, then to float, for the double d1 of sign sm *)
HoursPlus(hours, sm, d1) ==
  DoubleSum(SignOf(hours), ShiftLeft(Mag(hours), FracBits - d1.k), sm, d1.m,
            d1.k - FracBits)

(* float timeInHours = hours + (minutes / 60.0): the division and the sum   *)
(* are made in double, the assignment rounds the sum to float               *)
timeInHours(hours, minutes) ==
  IF minutes = 0 THEN F32OfWide(SignOf(hours), Mag(hours), 0, FALSE)
  ELSE HoursPlus(hours, SignOf(minutes), MinutesOver60(minutes))

(* one pass of the loop over the JSON array: the point an object yields, if *)
(* its time string has a ':' after its first character                      *)
RECURSIVE ParsePoints(_)
ParsePoints(es) ==
  IF es = <<>> THEN <<>>
  ELSE LET timeStr  == Head(es).time
           colonPos == indexOf(timeStr, ":")
           rest     == ParsePoints(Tail(es))
       IN IF colonPos > 0
          THEN <<[time |-> timeInHours(toInt(substring(timeStr, 0, colonPos)),
                                       toInt(substring(timeStr, colonPos + 1,
                                                       Len(timeStr)))),
                  duty |-> Head(es).duty]>> \o rest
          ELSE rest

(* a load that does not test the deserialization error *)
loadIgnoringError(stored) == ParsePoints(getString(stored, EmptyArrayText).entries)

(* the schedulePoints loadScheduleFromPreferences leaves, given the stored  *)
(* value of schedule/points                                                 *)
loadScheduleFromPreferences(stored) ==
  LET pointsJson == getString(stored, EmptyArrayText)
  IN IF ~pointsJson.valid THEN <<>> ELSE ParsePoints(pointsJson.entries)

---------------------------------------------------------------------------
(* DutyCalculator                                                           *)

SecondsPerDay == 24 * 3600

(* "now += timezoneOffset * 3600": the seconds of the day of the values now *)
(* can take.  The product is an int product; an offset beyond +-596523      *)
(* overflows it, and the 32-bit multiply leaves the low 32 bits of the      *)
(* exact product read as a signed int (WrapMul, computed in 16-bit halves,  *)
(* for 0 <= b < 2^15).  The sum is exact where time_t has 64 bits and is    *)
(* taken in 32 bits where time_t has 32 (WrapAdd, the low 32 bits of the    *)
(* exact sum).  With an offset of -12..12 and a clock of this century there *)
(* is one value, (now + tz * 3600) mod 86400.                               *)
OffsetTimes(now, tz) ==
  LET WrapMul(a, b) ==
        LET lo == (a % 65536) * b
            hi == ((a \div 65536) * b + lo \div 65536) % 65536
        IN (IF hi >= 32768 THEN hi - 65536 ELSE hi) * 65536 + (lo % 65536)
      WrapAdd(a, b) ==
        IF a > 0 /\ b > LongMax - a THEN (a + LongMin) + (b + LongMin)
        ELSE IF a < 0 /\ b < LongMin - a THEN (a - LongMin) + (b - LongMin)
        ELSE a + b
  IN {((now % SecondsPerDay) + (WrapMul(tz, 3600) % SecondsPerDay))
        % SecondsPerDay,
      WrapAdd(now, WrapMul(tz, 3600)) % SecondsPerDay}

(* a conversion that adds the offset to the hours of the UTC time of day *)
getCurrentTimeUnwrapped(now, tz) ==
  {F32Add(F32Div(F32FromInt(now % SecondsPerDay), F32FromInt(3600)),
          F32FromInt(tz))}

(* getCurrentTimeInHours: the local time of day of now + offset hours, as   *)
(* tm_hour + tm_min/60.0 + tm_sec/3600.0 rounded to float, which is the     *)
(* float nearest (seconds of the day)/3600; one value for each value the    *)
(* sum of line 64 can take                                                  *)
getCurrentTimeInHours(now, tz) ==
  {F32Div(F32FromInt(sod), F32FromInt(3600)) : sod \in OffsetTimes(now, tz)}

(* std::sort with the comparison a.time < b.time, as libstdc++ computes it: *)
(* ranges of more than SortThreshold elements are partitioned around the    *)
(* median of three (or heap-sorted once the depth limit is used up), then   *)
(* one insertion sort finishes.  Positions are 1-based and a range is       *)
(* [first, last).                                                           *)
SortThreshold == 16

TimeLess(a, b) == F32Lt(a.time, b.time)

SwapPoints(v, i, j) == [v EXCEPT ![i] = v[j], ![j] = v[i]]

(* __move_median_to_first: the median of v[a], v[b], v[c] goes to result *)
MoveMedianToFirst(v, result, a, b, c) ==
  IF TimeLess(v[a], v[b])
  THEN IF TimeLess(v[b], v[c]) THEN SwapPoints(v, result, b)
       ELSE IF TimeLess(v[a], v[c]) THEN SwapPoints(v, result, c)
       ELSE SwapPoints(v, result, a)
  ELSE IF TimeLess(v[a], v[c]) THEN SwapPoints(v, result, a)
       ELSE IF TimeLess(v[b], v[c]) THEN SwapPoints(v, result, c)
       ELSE SwapPoints(v, result, b)

RECURSIVE ScanUp(_, _, _)
ScanUp(v, first, pivot) ==
  IF TimeLess(v[first], v[pivot]) THEN ScanUp(v, first + 1, pivot) ELSE first

RECURSIVE ScanDown(_, _, _)
ScanDown(v, last, pivot) ==
  IF TimeLess(v[pivot], v[last]) THEN ScanDown(v, last - 1, pivot) ELSE last

(* __unguarded_partition: the points and the cut position.  PartitionSwap   *)
(* is the rest of one pass of its loop, first and last having moved inward  *)
RECURSIVE UnguardedPartition(_, _, _, _)
PartitionSwap(v, first, last, pivot) ==
  IF ~(first < last) THEN [points |-> v, cut |-> first]
  ELSE UnguardedPartition(SwapPoints(v, first, last), first + 1, last, pivot)

UnguardedPartition(v, first, last, pivot) ==
  PartitionSwap(v, ScanUp(v, first, pivot), ScanDown(v, last - 1, pivot), pivot)

UnguardedPartitionPivot(v, first, last) ==
  LET mid == first + (last - first) \div 2
  IN UnguardedPartition(MoveMedianToFirst(v, first, first + 1, mid, last - 1),
                        first + 1, last, first)

(* __partial_sort(first, last, last), the heap sort std::sort falls back to *)
(* when the depth limit is used up: __make_heap, then __sort_heap.  Offsets *)
(* into the range count from 0 as in the source; v[first + i] is the point  *)
(* at offset i.                                                             *)
HeapSort(v, first, last) ==
  LET at(i) == first + i
      (* __push_heap: value rises from hole while its parent compares less *)
      RECURSIVE PushHeap(_, _, _, _)
      PushHeap(w, hole, top, value) ==
        IF hole > top /\ TimeLess(w[at((hole - 1) \div 2)], value)
        THEN PushHeap([w EXCEPT ![at(hole)] = w[at((hole - 1) \div 2)]],
                      (hole - 1) \div 2, top, value)
        ELSE [w EXCEPT ![at(hole)] = value]
      (* the loop of __adjust_heap: the larger child moves up into the hole *)
      RECURSIVE SiftDown(_, _, _, _)
      SiftDown(w, hole, child, len) ==
        IF child < (len - 1) \div 2
        THEN LET right == 2 * (child + 1)
                 pick  == IF TimeLess(w[at(right)], w[at(right - 1)])
                          THEN right - 1 ELSE right
             IN SiftDown([w EXCEPT ![at(hole)] = w[at(pick)]], pick, pick, len)
        ELSE IF len % 2 = 0 /\ child = (len - 2) \div 2
        THEN [points |-> [w EXCEPT ![at(hole)] = w[at(2 * (child + 1) - 1)]],
              hole |-> 2 * (child + 1) - 1]
        ELSE [points |-> w, hole |-> hole]
      (* __adjust_heap *)
      AdjustHeap(w, hole, len, value) ==
        LET down == SiftDown(w, hole, hole, len)
        IN PushHeap(down.points, down.hole, hole, value)
      (* the loop of __make_heap, from the last parent down to the root *)
      RECURSIVE MakeHeap(_, _, _)
      MakeHeap(w, parent, len) ==
        LET h == AdjustHeap(w, parent, len, w[at(parent)])
        IN IF parent = 0 THEN h ELSE MakeHeap(h, parent - 1, len)
      (* __sort_heap: __pop_heap moves the root behind the shrinking heap *)
      RECURSIVE SortHeap(_, _)
      SortHeap(w, len) ==
        IF len > 1
        THEN SortHeap(AdjustHeap([w EXCEPT ![at(len - 1)] = w[at(0)]],
                                 0, len - 1, w[at(len - 1)]),
                      len - 1)
        ELSE w
      n == last - first
  IN IF n < 2 THEN v ELSE SortHeap(MakeHeap(v, (n - 2) \div 2, n), n)

(* __introsort_loop: a range of more than SortThreshold points is sorted by *)
(* the heap sort when the depth limit is used up, and is else partitioned,  *)
(* the upper part sorted by the recursive call and the lower by the loop    *)
RECURSIVE IntrosortLoop(_, _, _, _)
IntrosortCut(part, first, last, depth) ==
  IntrosortLoop(IntrosortLoop(part.points, part.cut, last, depth),
                first, part.cut, depth)

IntrosortLoop(v, first, last, depth) ==
  IF last - first > SortThreshold
  THEN IF depth = 0 THEN HeapSort(v, first, last)
       ELSE IntrosortCut(UnguardedPartitionPivot(v, first, last), first, last,
                         depth - 1)
  ELSE v

(* one step of the insertion sort: p moves left past the points that        *)
(* compare greater                                                          *)
RECURSIVE InsertPoint(_, _)
InsertPoint(sorted, p) ==
  IF sorted = <<>> THEN <<p>>
  ELSE LET last == sorted[Len(sorted)]
       IN IF TimeLess(p, last)
          THEN InsertPoint(SubSeq(sorted, 1, Len(sorted) - 1), p) \o <<last>>
          ELSE sorted \o <<p>>

(* __final_insertion_sort *)
RECURSIVE InsertionSort(_)
InsertionSort(pts) ==
  IF pts = <<>> THEN <<>>
  ELSE InsertPoint(InsertionSort(SubSeq(pts, 1, Len(pts) - 1)), pts[Len(pts)])

(* a sort that leaves the points as they were loaded *)
SortNothing(pts) == pts

(* std::sort: __introsort_loop with the depth limit 2 * __lg(n), __lg the  *)
(* position of the highest bit, then __final_insertion_sort                 *)
SortPoints(pts) ==
  IF Len(pts) > SortThreshold
  THEN InsertionSort(IntrosortLoop(pts, 1, Len(pts) + 1,
                                   2 * (BitLen(Len(pts)) - 1)))
  ELSE InsertionSort(pts)

BeforeInit == [time |-> F32Zero, duty |-> 0]

AfterInit == [time |-> F32FromInt(24), duty |-> 0]

(* the scan loop from index i: before takes every point at or before        *)
(* currentTime, after takes the first point at or after it                  *)
RECURSIVE ScanPoints(_, _, _, _)
ScanPoints(pts, i, currentTime, acc) ==
  IF i > Len(pts) THEN acc
  ELSE LET p  == pts[i]
           a1 == IF F32Le(p.time, currentTime)
                 THEN [acc EXCEPT !.before = p, !.foundBefore = TRUE]
                 ELSE acc
           a2 == IF F32Le(currentTime, p.time) /\ ~a1.foundAfter
                 THEN [a1 EXCEPT !.after = p, !.foundAfter = TRUE]
                 ELSE a1
       IN ScanPoints(pts, i + 1, currentTime, a2)

(* constrain(amt, 0.0, 100.0) *)
constrain(amt) ==
  IF F32Lt(amt, F32Zero) THEN F32Zero
  ELSE IF F32Lt(F32FromInt(100), amt) THEN F32FromInt(100)
  ELSE amt

(* an interpolation that holds the duty of the earlier point *)
InterpolateHold(before, after, currentTime, fused) ==
  constrain(F32FromInt(before.duty))

(* before.duty + diff * ratio in float.  The compiler is free to contract   *)
(* the multiplication and the addition into one fused multiply-add, which   *)
(* rounds once (fused), or to round the product and then the sum.           *)
MultiplyAdd(base, diff, ratio, fused) ==
  IF fused THEN F32Fma(diff, ratio, base) ELSE F32Add(base, F32Mul(diff, ratio))

(* the float the interpolation between before and after gives at currentTime *)
Interpolate(before, after, currentTime, fused) ==
  IF before.time = after.time THEN F32FromInt(before.duty)
  ELSE LET timeDiff       == F32Sub(after.time, before.time)
           timeFromBefore == F32Sub(currentTime, before.time)
           ratio          == F32Div(timeFromBefore, timeDiff)
           duty == MultiplyAdd(F32FromInt(before.duty),
                               F32Sub(F32FromInt(after.duty),
                                      F32FromInt(before.duty)), ratio, fused)
       IN constrain(duty)

(* the value calculateCurrentDuty returns, given the outcome sc of the scan *)
DutyOfScan(sorted, currentTime, sc, fused) ==
  LET b1 == IF ~sc.foundBefore THEN BeforeInit ELSE sc.before
      a1 == IF ~sc.foundBefore THEN sorted[1] ELSE sc.after
      b2 == IF ~sc.foundAfter THEN sorted[Len(sorted)] ELSE b1
      a2 == IF ~sc.foundAfter THEN AfterInit ELSE a1
  IN IF ~sc.foundBefore /\ ~sc.foundAfter THEN F32Zero
     ELSE Interpolate(b2, a2, currentTime, fused)

(* calculateCurrentDuty after the sort: the returned duty and the sorted    *)
(* schedulePoints                                                           *)
DutyOfSorted(sorted, currentTime, fused) ==
  [duty   |-> DutyOfScan(sorted, currentTime,
                         ScanPoints(sorted, 1, currentTime,
                                    [before |-> BeforeInit, after |-> AfterInit,
                                     foundBefore |-> FALSE, foundAfter |-> FALSE]),
                         fused),
   points |-> sorted]

(* a calculation that turns the light fully on when no schedule is loaded   *)
calculateDefaultOn(pts, now, tz, fused) ==
  IF Len(pts) = 0 THEN {[duty |-> F32FromInt(100), points |-> pts]}
  ELSE {DutyOfSorted(sorted, currentTime, fused) :
          sorted \in {SortPoints(pts)},
          currentTime \in getCurrentTimeInHours(now, tz)}

(* calculateCurrentDuty: the returned duty and the schedulePoints it leaves *)
(* (sorted in place, unless empty), at the clock reading now with the       *)
(* offset tz, in a build that fuses the interpolation or does not; one      *)
(* outcome for each value getCurrentTimeInHours can return                  *)
calculateCurrentDuty(pts, now, tz, fused) ==
  IF Len(pts) = 0 THEN {[duty |-> F32Zero, points |-> pts]}
  ELSE {DutyOfSorted(sorted, currentTime, fused) :
          sorted \in {SortPoints(pts)},
          currentTime \in getCurrentTimeInHours(now, tz)}

---------------------------------------------------------------------------
(* Inputs                                                                   *)

(* updates followed before and after the first resync falls due *)
SyncWindow == 3

(* bounds of the model *)
MaxUpdates == 2

MaxPoints == 2

FadeMaxUpdates == 505

FadeSaveWindow == 2

(* the reading of the unset clock, in seconds, up to which a restart by     *)
(* /save is followed                                                        *)
MaxUnsetClock == 3

(* program constants *)
TickMs == 1000

BootDelayMs == 1000

WifiPollMs == 500

WifiTimeoutMs == 15000

NtpPollMs == 1000

SaveDelayMs == 2000

NTP_SYNC_INTERVAL == 3600000

NtpMaxRetry == 10

NtpSyncedAfter == 8 * 3600 * 2

(* the second h:m:sec of 2026-10-30 UTC, the day 20756 of the epoch *)
At(h, m, sec) == 20756 * SecondsPerDay + h * 3600 + m * 60 + sec

(* the instant SNTP sets the clock to: with the offset of OffsetArgs and    *)
(* the unset clock the schedule is read in the seconds that follow 12:00,   *)
(* 01:00 and 00:00                                                          *)
ClockSamples == {At(12, 0, 0)}

(* the schedule texts a client may send: malformed JSON, the empty array,   *)
(* one point with a duty above 100, two points in descending time order     *)
ScheduleTexts ==
  {MalformedText,
   EmptyArrayText,
   ArrayText(<<Entry(HourText(12), 150)>>),
   ArrayText(<<Entry(HourText(18), 100), Entry(HourText(6), 50)>>)}

(* the texts sent to the store that may drop a write: the same, and an      *)
(* element whose time has no ':' before a point                             *)
StoreTexts ==
  ScheduleTexts
    \cup {ArrayText(<<Entry(<<"1", "2", "0", "0">>, 40), Entry(HourText(6), 80)>>)}

(* the poll of the WiFi wait during which the station connects; with       *)
(* NoConnect it never does                                                  *)
WifiPolls == {3}

NoConnect == 0

(* the credentials a client may send to /save *)
WifiArgs ==
  {[ssid |-> "", password |-> "secret"], [ssid |-> "home", password |-> "secret"]}

(* the "offset" arguments a client may send *)
OffsetArgs == {<<"1", "3">>}

OffsetValues == {0} \cup {toInt(a) : a \in OffsetArgs}

RECURSIVE SeqsUpTo(_, _)
SeqsUpTo(S, n) ==
  IF n = 0 THEN {<<>>}
  ELSE LET shorter == SeqsUpTo(S, n - 1)
       IN shorter \cup {Append(q, x) : q \in {r \in shorter : Len(r) = n - 1},
                                      x \in S}

(* a schedule longer than SortThreshold: hourly points from 15:00 down to   *)
(* 00:00, with a second 12:00 point right after the first                   *)
Hourly == [i \in 1..16 |-> Entry(HourText(16 - i), IF 16 - i = 12 THEN 20 ELSE 50)]

DescendingText ==
  ArrayText(SubSeq(Hourly, 1, 4) \o <<Entry(HourText(12), 80)>>
              \o SubSeq(Hourly, 5, 16))

(* inputs of the duty calculation: every array of at most MaxPoints points  *)
(* at 00:00, 06:00 or 12:00 with duty 80 or 150, the single point           *)
(* (12:00, -20), and DescendingText, read at DutyInstants                   *)
DutyTexts ==
  {ArrayText(es) :
     es \in SeqsUpTo({Entry(HourText(h), d) : h \in {0, 6, 12}, d \in {80, 150}},
                     MaxPoints)}
    \cup {ArrayText(<<Entry(HourText(12), -20)>>), DescendingText}

DutyInstants ==
  {At(0, 0, 0), At(0, 0, 1), At(3, 0, 0), At(5, 59, 59), At(6, 0, 0),
   At(6, 0, 1), At(11, 59, 59), At(12, 0, 0), At(12, 0, 1), At(18, 0, 0),
   At(23, 59, 59)}

(* inputs of the fade: a schedule that holds duty c from 00:00 to 01:00 and *)
(* duty g from 13:00 to 14:00, read at 00:30 and then at 13:30              *)
FadeDuties == {0, 5, 100}

FadeTexts ==
  {ArrayText(<<Entry(HourText(0), c), Entry(HourText(1), c),
               Entry(HourText(13), g), Entry(HourText(14), g)>>) :
     c \in FadeDuties, g \in FadeDuties}

FadeBootInstant == At(0, 30, 0)

FadeInstant == At(13, 30, 0)

(* Evaluation caches: the values of loadScheduleFromPreferences and of      *)
(* calculateCurrentDuty on the inputs of the system and of the fade,        *)
(* computed once                                                            *)
CachedTexts == StoreTexts \cup FadeTexts

(* the longest setup(): no answer from the network or from SNTP *)
BootMaxSeconds == (BootDelayMs + WifiTimeoutMs + NtpMaxRetry * NtpPollMs) \div 1000

LoadCache == [t \in CachedTexts |-> loadScheduleFromPreferences(Stored(t))]

CachedLoad(stored) ==
  IF stored.present /\ stored.value \in CachedTexts
  THEN LoadCache[stored.value]
  ELSE loadScheduleFromPreferences(stored)

PointsOf(texts) ==
  {LoadCache[t] : t \in texts} \cup {SortPoints(LoadCache[t]) : t \in texts}

SystemPoints == PointsOf(StoreTexts)

SystemSeconds ==
  {(n + e + z * 3600) % SecondsPerDay :
     n \in ClockSamples \cup {0}, e \in 0..(BootMaxSeconds + MaxUpdates),
     z \in OffsetValues}

SystemDutyCache ==
  [fused \in BOOLEAN, pts \in SystemPoints, sod \in SystemSeconds |->
     CHOOSE calc \in calculateCurrentDuty(pts, sod, 0, fused) : TRUE]

FadePoints == PointsOf(FadeTexts)

FadeSeconds ==
  {(FadeBootInstant + e) % SecondsPerDay : e \in 0..BootMaxSeconds}
    \cup {(FadeInstant + e) % SecondsPerDay : e \in 0..FadeMaxUpdates}

FadeDutyCache ==
  [fused \in BOOLEAN, pts \in FadePoints, sod \in FadeSeconds |->
     CHOOSE calc \in calculateCurrentDuty(pts, sod, 0, fused) : TRUE]

(* calculateCurrentDuty, read from the tables where they hold the input *)
CachedDuty(pts, now, tz, fused) ==
  IF pts \in SystemPoints /\ OffsetTimes(now, tz) \subseteq SystemSeconds
  THEN {SystemDutyCache[fused, pts, sod] : sod \in OffsetTimes(now, tz)}
  ELSE IF pts \in FadePoints /\ OffsetTimes(now, tz) \subseteq FadeSeconds
       THEN {FadeDutyCache[fused, pts, sod] : sod \in OffsetTimes(now, tz)}
       ELSE calculateCurrentDuty(pts, now, tz, fused)

---------------------------------------------------------------------------
(* FadeController                                                           *)

(* float fadeStep = 0.2: the float nearest 2/10 *)
fadeStep == F32Div(F32FromInt(2), F32FromInt(10))

(* a fade that moves two steps at a time *)
FadeTowardTwice(targetDuty, current) ==
  LET twice == F32Add(fadeStep, fadeStep)
  IN IF F32Le(F32Abs(F32Sub(targetDuty, current)), twice) THEN targetDuty
     ELSE IF F32Lt(current, targetDuty) THEN F32Add(current, twice)
     ELSE F32Sub(current, twice)

(* a fade that steps without testing the distance to the target *)
FadeTowardNoSnap(targetDuty, current) ==
  IF F32Lt(current, targetDuty) THEN F32Add(current, fadeStep)
  ELSE F32Sub(current, fadeStep)

(* the currentDutyPWM one fade step leaves, given the target *)
FadeToward(targetDuty, current) ==
  IF F32Le(F32Abs(F32Sub(targetDuty, current)), fadeStep) THEN targetDuty
  ELSE IF F32Lt(current, targetDuty) THEN F32Add(current, fadeStep)
  ELSE F32Sub(current, fadeStep)

(* updatePWMFromSchedule: for each outcome of calculateCurrentDuty, the new *)
(* currentDutyPWM, the target and the schedulePoints left                   *)
updatePWMFromSchedule(pts, current, now, tz, fused) ==
  {[current |-> FadeToward(calc.duty, current), target |-> calc.duty,
    points |-> calc.points] : calc \in CachedDuty(pts, now, tz, fused)}

---------------------------------------------------------------------------
(* Actuator                                                                 *)

PwmMax == 4095

(* floor(m * 2^-k * 4095 / 100 + 1/2) for a float mantissa m and 17 <= k:   *)
(* the whole percents and the fraction r / 2^k are scaled apart so that     *)
(* every intermediate stays below 2^31                                      *)
ScaleDuty(m, k) ==
  IF k > 30 THEN 0
  ELSE LET whole == m \div 2^k
           r     == m % 2^k
           rh    == r \div 4096
           rl    == r % 4096
           fx    == (PwmMax * rh + (PwmMax * rl) \div 4096) \div 2^(k - 12)
       IN (whole * PwmMax + fx + 50) \div 100

(* a scaling that leaves out the constrain *)
setPWMDutyUnclamped(dutyPercent) ==
  IF dutyPercent.m = 0 \/ dutyPercent.s = -1 THEN 0
  ELSE ScaleDuty(dutyPercent.m, -dutyPercent.e)

(* setPWMDuty(dutyPercent): the value handed to ledcWrite,                  *)
(* (int)((constrain(dutyPercent, 0, 100) / 100.0) * 4095.0 + 0.5).  The     *)
(* sketch evaluates the expression in double; on each of the 1120403457     *)
(* floats of [0, 100] the double evaluation gives floor(d * 40.95 + 0.5),   *)
(* which is what ScaleDuty computes in integers.                            *)
setPWMDuty(dutyPercent) ==
  LET d == constrain(dutyPercent)
  IN IF d.m = 0 THEN 0 ELSE ScaleDuty(d.m, -d.e)

---------------------------------------------------------------------------
(* State                                                                    *)

VARIABLES
  pc,              \* "boot" before setup() has run; in loop(): "run" at its
                   \* top, "update" between handleClient and a due update
  mode,            \* "sta": schedule handlers registered; "ap": provisioning only
  fpContract,      \* the build fuses the multiply-add of the interpolation
  nvsWifi,         \* preferences wifi/ssid and wifi/password
  nvsPoints,       \* preferences schedule/points
  nvsTimezone,     \* preferences settings/timezone
  schedulePoints,  \* std::vector<SchedulePoint>
  currentDutyPWM,  \* float
  pwmValue,        \* the duty last written to the LEDC channel
  targetDuty,      \* the target of the latest updatePWMFromSchedule
  timezoneOffset,  \* int
  clock,           \* the system clock: the second now it read at millis at
  millis,          \* milliseconds since boot
  lastNTPSync,     \* millis() at the end of the last setupTime()
  lastPWMUpdate,   \* millis() at the latest update of loop()
  response,        \* the HTTP response sent by the latest step, if any
  updates,         \* history: calls of updatePWMFromSchedule since boot
  lastSaved,       \* history: the text of the last /saveschedule request
  lastWritten      \* history: the store performed the write of that request

vars == <<pc, mode, fpContract, nvsWifi, nvsPoints, nvsTimezone, schedulePoints,
          currentDutyPWM, pwmValue, targetDuty, timezoneOffset, clock, millis,
          lastNTPSync, lastPWMUpdate, response, updates, lastSaved,
          lastWritten>>

NoResponse == [op |-> "none"]

(* time(nullptr) at millis() = ms: the clock counts the seconds on from the *)
(* reading it was given; before SNTP has set it, it reads the seconds since *)
(* it started                                                               *)
time(clk, ms) == clk.now + (ms - clk.at) \div 1000

Unsynced == [synced |-> FALSE, now |-> 0, at |-> 0]

(* the clock SNTP has set to the second t at millis() = ms *)
SetAt(t, ms) == [synced |-> TRUE, now |-> t, at |-> ms]

(* the device as the power comes on: without credentials, or provisioned *)
Init ==
  /\ pc = "boot"
  /\ mode = "ap"
  /\ fpContract \in BOOLEAN
  /\ nvsWifi \in {NoKey} \cup {Stored(a) : a \in {b \in WifiArgs : b.ssid # ""}}
  /\ nvsPoints = NoKey
  /\ nvsTimezone = NoKey
  /\ schedulePoints = <<>>
  /\ currentDutyPWM = F32Zero
  /\ pwmValue = 0
  /\ targetDuty = F32Zero
  /\ timezoneOffset = 0
  /\ clock = Unsynced
  /\ millis = 0
  /\ lastNTPSync = 0
  /\ lastPWMUpdate = 0
  /\ response = NoResponse
  /\ updates = 0
  /\ lastSaved = NoKey
  /\ lastWritten = FALSE

---------------------------------------------------------------------------
(* TimeKeeper                                                               *)

(* the polls during whose one-second delay SNTP may set the clock; with     *)
(* NoAnswer it does not set it                                              *)
PollCounts == {1, NtpMaxRetry}

NoAnswer == 0

(* the while loop of setupTime() after retry polls: it polls once a second  *)
(* while the clock reads less than 16 h and fewer than 10 polls were made.  *)
(* SNTP sets the clock to t during poll number answer.                      *)
RECURSIVE PollLoop(_, _, _, _, _)
PollLoop(clk, ms, retry, answer, t) ==
  IF time(clk, ms) < NtpSyncedAfter /\ retry < NtpMaxRetry
  THEN PollLoop(IF retry + 1 = answer THEN SetAt(t, ms + NtpPollMs) ELSE clk,
                ms + NtpPollMs, retry + 1, answer, t)
  ELSE [clock |-> clk, millis |-> ms]

(* a setupTime() that polls for twice as long before it gives up *)
setupTimePatient(clk, ms) ==
  IF time(clk, ms) >= NtpSyncedAfter THEN {[clock |-> clk, millis |-> ms]}
  ELSE {[clock |-> SetAt(t, ms + r * NtpPollMs), millis |-> ms + r * NtpPollMs] :
          r \in PollCounts, t \in ClockSamples}
       \cup {[clock |-> clk, millis |-> ms + 2 * NtpMaxRetry * NtpPollMs]}

(* setupTime(): the outcomes [clock, millis] of the loop, over the polls    *)
(* at which SNTP answers                                                    *)
setupTime(clk, ms) ==
  {PollLoop(clk, ms, 0, answer, t) :
     answer \in PollCounts \cup {NoAnswer}, t \in ClockSamples}

(* a resync check that keeps the old marker when the clock stays unset *)
syncRetryOnFailure(clk, ms, last) ==
  IF ms - last >= NTP_SYNC_INTERVAL
  THEN {[clock |-> o.clock, millis |-> o.millis,
         lastNTPSync |-> IF o.clock.synced THEN o.millis ELSE last] :
          o \in setupTime(clk, ms)}
  ELSE {[clock |-> clk, millis |-> ms, lastNTPSync |-> last]}

(* syncTimeIfNeeded() *)
syncTimeIfNeeded(clk, ms, last) ==
  IF ms - last >= NTP_SYNC_INTERVAL
  THEN {[clock |-> o.clock, millis |-> o.millis, lastNTPSync |-> o.millis] :
          o \in setupTime(clk, ms)}
  ELSE {[clock |-> clk, millis |-> ms, lastNTPSync |-> last]}

---------------------------------------------------------------------------
(* Operations                                                               *)

(* the wait of startSTAMode() after polls polls: it polls every 500 ms      *)
(* while the station is not connected and 15 s have not passed since start. *)
(* The station connects during poll number connectAt.                       *)
RECURSIVE WifiLoop(_, _, _, _)
WifiLoop(ms, start, polls, connectAt) ==
  IF (connectAt = NoConnect \/ polls < connectAt) /\ ms - start < WifiTimeoutMs
  THEN WifiLoop(ms + WifiPollMs, start, polls + 1, connectAt)
  ELSE [connected |-> connectAt # NoConnect /\ polls >= connectAt, millis |-> ms]

(* the outcome of the connection attempt of startSTAMode() entered at ms:   *)
(* with no ssid stored, or an empty one, no attempt is made                 *)
WifiWait(stored, ms, connectAt) ==
  IF stored.present /\ stored.value.ssid # "" THEN WifiLoop(ms, ms, 0, connectAt)
  ELSE [connected |-> FALSE, millis |-> ms]

(* setup(): the delay, setupPWM, startSTAMode, then the duty is set to the  *)
(* target without fading                                                    *)
Setup(connectAt) ==
  /\ pc = "boot"
  /\ pc' = "run"
  /\ \E w \in {WifiWait(nvsWifi, millis + BootDelayMs, connectAt)} :
       IF w.connected
       THEN \E o \in setupTime(clock, w.millis) :
            \E calc \in CachedDuty(CachedLoad(nvsPoints), time(o.clock, o.millis),
                                   getInt(nvsTimezone, 0), fpContract) :
              /\ mode' = "sta"
              /\ timezoneOffset' = getInt(nvsTimezone, 0)
              /\ clock' = o.clock
              /\ millis' = o.millis
              /\ lastNTPSync' = o.millis
              /\ schedulePoints' = calc.points
              /\ currentDutyPWM' = calc.duty
              /\ pwmValue' = setPWMDuty(calc.duty)
       ELSE \E calc \in CachedDuty(schedulePoints, time(clock, w.millis),
                                   timezoneOffset, fpContract) :
              /\ mode' = "ap"
              /\ millis' = w.millis
              /\ schedulePoints' = calc.points
              /\ currentDutyPWM' = calc.duty
              /\ pwmValue' = setPWMDuty(calc.duty)
              /\ UNCHANGED <<timezoneOffset, clock, lastNTPSync>>
  /\ response' = NoResponse
  /\ UNCHANGED <<fpContract, nvsWifi, nvsPoints, nvsTimezone, targetDuty,
                 lastPWMUpdate, updates, lastSaved, lastWritten>>

(* millis() at the next update of loop(): now when a second has passed      *)
(* since the latest, else when it has                                       *)
UpdateInstant(ms, last) == IF ms - last >= TickMs THEN ms ELSE last + TickMs

(* millis() at the pass of loop() in which server.handleClient() serves a   *)
(* request: any instant from the one at hand to that of the pass in which   *)
(* the second has elapsed, whose update follows the request                 *)
ServeInstants == millis..UpdateInstant(millis, lastPWMUpdate)

(* the instants at which the requests of a run arrive: the instant at hand, *)
(* half a second after the latest update, and the instant of the next       *)
(* update                                                                   *)
ServeSamples ==
  {ms \in {millis, lastPWMUpdate + 500, UpdateInstant(millis, lastPWMUpdate)} :
     ms \in ServeInstants}

(* where loop() stands when server.handleClient() has returned at ms: at    *)
(* the update when a second has passed since the latest, else at its top    *)
AfterClient(ms) == IF ms - lastPWMUpdate >= TickMs THEN "update" ELSE "run"

(* lines 665 to 671 of the pass of loop() in which the second has elapsed:  *)
(* the marker is set, then the fade update, then the resync check           *)
Tick(maxUpdates) ==
  /\ pc \in {"run", "update"}
  /\ updates < maxUpdates
  /\ pc' = "run"
  /\ \E ms \in {UpdateInstant(millis, lastPWMUpdate)} :
       /\ lastPWMUpdate' = ms
       /\ \E upd \in updatePWMFromSchedule(schedulePoints, currentDutyPWM,
                                            time(clock, ms), timezoneOffset,
                                            fpContract) :
            /\ schedulePoints' = upd.points
            /\ currentDutyPWM' = upd.current
            /\ pwmValue' = setPWMDuty(upd.current)
            /\ targetDuty' = upd.target
       /\ \E o \in syncTimeIfNeeded(clock, ms, lastNTPSync) :
            /\ clock' = o.clock
            /\ millis' = o.millis
            /\ lastNTPSync' = o.lastNTPSync
  /\ updates' = updates + 1
  /\ response' = NoResponse
  /\ UNCHANGED <<mode, fpContract, nvsWifi, nvsPoints, nvsTimezone,
                 timezoneOffset, lastSaved, lastWritten>>

(* the SNTP service started by configTime sets the system clock *)
ClockSet(t) ==
  /\ pc = "run"
  /\ mode = "sta"
  /\ ~clock.synced \/ time(clock, millis) # t
  /\ clock' = SetAt(t, millis)
  /\ response' = NoResponse
  /\ UNCHANGED <<pc, mode, fpContract, nvsWifi, nvsPoints, nvsTimezone,
                 schedulePoints, currentDutyPWM, pwmValue, targetDuty,
                 timezoneOffset, millis, lastNTPSync, lastPWMUpdate, updates,
                 lastSaved, lastWritten>>

(* GET / while the device is an access point: the form with the networks    *)
(* found                                                                    *)
handleRoot(ms) ==
  /\ pc = "run"
  /\ ms \in ServeInstants
  /\ mode = "ap"
  /\ pc' = AfterClient(ms)
  /\ millis' = ms
  /\ response' = [op |-> "root", code |-> 200]
  /\ UNCHANGED <<mode, fpContract, nvsWifi, nvsPoints, nvsTimezone,
                 schedulePoints, currentDutyPWM, pwmValue, targetDuty,
                 timezoneOffset, clock, lastNTPSync, lastPWMUpdate, updates,
                 lastSaved, lastWritten>>

(* the program starts again: setup() will run on fresh globals and a dark   *)
(* channel, the preferences stay, the system clock is clk                   *)
Restarted(clk) ==
  /\ pc' = "boot"
  /\ mode' = "ap"
  /\ schedulePoints' = <<>>
  /\ currentDutyPWM' = F32Zero
  /\ pwmValue' = 0
  /\ targetDuty' = F32Zero
  /\ timezoneOffset' = 0
  /\ clock' = clk
  /\ millis' = 0
  /\ lastNTPSync' = 0
  /\ lastPWMUpdate' = 0
  /\ updates' = 0
  /\ UNCHANGED <<fpContract, nvsPoints, nvsTimezone, lastSaved, lastWritten>>

(* POST /save while the device is an access point: with both fields the     *)
(* credentials are stored and, two seconds after the answer, the program    *)
(* restarts; the system clock counts on through the restart                 *)
handleSave(ms, hasSsid, hasPassword, arg) ==
  /\ pc = "run"
  /\ ms \in ServeInstants
  /\ mode = "ap"
  /\ IF hasSsid /\ hasPassword
     THEN /\ time(clock, ms + SaveDelayMs) <= MaxUnsetClock
          /\ nvsWifi' = Stored(arg)
          /\ response' = [op |-> "save", code |-> 200]
          /\ Restarted([clock EXCEPT !.at = clock.at - (ms + SaveDelayMs)])
     ELSE /\ pc' = AfterClient(ms)
          /\ millis' = ms
          /\ response' = [op |-> "save", code |-> 400]
          /\ UNCHANGED <<mode, fpContract, nvsWifi, nvsPoints, nvsTimezone,
                         schedulePoints, currentDutyPWM, pwmValue, targetDuty,
                         timezoneOffset, clock, lastNTPSync, lastPWMUpdate,
                         updates, lastSaved, lastWritten>>

(* POST /settimezone *)
handleSetTimezone(ms, hasArg, offset) ==
  /\ pc = "run"
  /\ ms \in ServeInstants
  /\ mode = "sta"
  /\ pc' = AfterClient(ms)
  /\ millis' = ms
  /\ IF hasArg
     THEN /\ timezoneOffset' = toInt(offset)
          /\ nvsTimezone' = Stored(toInt(offset))
          /\ response' = [op |-> "settimezone", code |-> 303]
     ELSE /\ response' = [op |-> "settimezone", code |-> 400]
          /\ UNCHANGED <<timezoneOffset, nvsTimezone>>
  /\ UNCHANGED <<mode, fpContract, nvsWifi, nvsPoints, schedulePoints,
                 currentDutyPWM, pwmValue, targetDuty, clock, lastNTPSync,
                 lastPWMUpdate, updates, lastSaved, lastWritten>>

(* a store that drops the write *)
putStringDropped(stored, value, written) == stored

(* preferences.putString: the key's value after the write *)
putString(stored, value, written) == IF written THEN Stored(value) ELSE stored

(* a handler that stores and loads whatever the request carries *)
handleSaveScheduleUnchecked(ms, hasArg, schedule, written, maxUpdates) ==
  /\ pc = "run"
  /\ ms \in ServeInstants
  /\ mode = "sta"
  /\ updates < maxUpdates
  /\ pc' = AfterClient(ms)
  /\ millis' = ms
  /\ nvsPoints' = putString(nvsPoints, schedule, written)
  /\ \E upd \in updatePWMFromSchedule(CachedLoad(nvsPoints'), currentDutyPWM,
                                       time(clock, ms), timezoneOffset,
                                       fpContract) :
       /\ schedulePoints' = upd.points
       /\ currentDutyPWM' = upd.current
       /\ pwmValue' = setPWMDuty(upd.current)
       /\ targetDuty' = upd.target
  /\ response' = [op |-> "saveschedule", code |-> 200]
  /\ lastSaved' = Stored(schedule)
  /\ lastWritten' = written
  /\ updates' = updates + 1
  /\ UNCHANGED <<mode, nvsWifi, nvsTimezone, timezoneOffset, clock,
                 lastNTPSync, lastPWMUpdate, fpContract>>

(* a handler that reloads the schedule before it stores the new text *)
handleSaveScheduleLoadFirst(ms, hasArg, schedule, written, maxUpdates) ==
  /\ pc = "run"
  /\ ms \in ServeInstants
  /\ mode = "sta"
  /\ hasArg => updates < maxUpdates
  /\ pc' = AfterClient(ms)
  /\ millis' = ms
  /\ IF hasArg
     THEN /\ nvsPoints' = putString(nvsPoints, schedule, written)
          /\ \E upd \in updatePWMFromSchedule(CachedLoad(nvsPoints),
                                               currentDutyPWM,
                                               time(clock, ms),
                                               timezoneOffset, fpContract) :
               /\ schedulePoints' = upd.points
               /\ currentDutyPWM' = upd.current
               /\ pwmValue' = setPWMDuty(upd.current)
               /\ targetDuty' = upd.target
          /\ response' = [op |-> "saveschedule", code |-> 200]
          /\ lastSaved' = Stored(schedule)
          /\ lastWritten' = written
          /\ updates' = updates + 1
     ELSE /\ response' = [op |-> "saveschedule", code |-> 400]
          /\ UNCHANGED <<nvsPoints, schedulePoints, currentDutyPWM, pwmValue,
                         targetDuty, lastSaved, lastWritten, updates>>
  /\ UNCHANGED <<mode, nvsWifi, nvsTimezone, timezoneOffset, clock,
                 lastNTPSync, lastPWMUpdate, fpContract>>

(* a handler that takes the schedule from the request, not from the store *)
handleSaveScheduleFromRequest(ms, hasArg, schedule, written, maxUpdates) ==
  /\ pc = "run"
  /\ ms \in ServeInstants
  /\ mode = "sta"
  /\ hasArg => updates < maxUpdates
  /\ pc' = AfterClient(ms)
  /\ millis' = ms
  /\ IF hasArg
     THEN /\ nvsPoints' = putString(nvsPoints, schedule, written)
          /\ \E upd \in updatePWMFromSchedule(CachedLoad(Stored(schedule)),
                                               currentDutyPWM,
                                               time(clock, ms),
                                               timezoneOffset, fpContract) :
               /\ schedulePoints' = upd.points
               /\ currentDutyPWM' = upd.current
               /\ pwmValue' = setPWMDuty(upd.current)
               /\ targetDuty' = upd.target
          /\ response' = [op |-> "saveschedule", code |-> 200]
          /\ lastSaved' = Stored(schedule)
          /\ lastWritten' = written
          /\ updates' = updates + 1
     ELSE /\ response' = [op |-> "saveschedule", code |-> 400]
          /\ UNCHANGED <<nvsPoints, schedulePoints, currentDutyPWM, pwmValue,
                         targetDuty, lastSaved, lastWritten, updates>>
  /\ UNCHANGED <<mode, nvsWifi, nvsTimezone, timezoneOffset, clock,
                 lastNTPSync, lastPWMUpdate, fpContract>>

(* POST /saveschedule, served at millis() = ms *)
handleSaveSchedule(ms, hasArg, schedule, written, maxUpdates) ==
  /\ pc = "run"
  /\ ms \in ServeInstants
  /\ mode = "sta"
  /\ hasArg => updates < maxUpdates
  /\ pc' = AfterClient(ms)
  /\ millis' = ms
  /\ IF hasArg
     THEN /\ nvsPoints' = putString(nvsPoints, schedule, written)
          /\ \E upd \in updatePWMFromSchedule(CachedLoad(nvsPoints'),
                                               currentDutyPWM,
                                               time(clock, ms),
                                               timezoneOffset, fpContract) :
               /\ schedulePoints' = upd.points
               /\ currentDutyPWM' = upd.current
               /\ pwmValue' = setPWMDuty(upd.current)
               /\ targetDuty' = upd.target
          /\ response' = [op |-> "saveschedule", code |-> 200]
          /\ lastSaved' = Stored(schedule)
          /\ lastWritten' = written
          /\ updates' = updates + 1
     ELSE /\ response' = [op |-> "saveschedule", code |-> 400]
          /\ UNCHANGED <<nvsPoints, schedulePoints, currentDutyPWM, pwmValue,
                         targetDuty, lastSaved, lastWritten, updates>>
  /\ UNCHANGED <<mode, nvsWifi, nvsTimezone, timezoneOffset, clock,
                 lastNTPSync, lastPWMUpdate, fpContract>>

(* GET /loadschedule *)
handleLoadSchedule(ms) ==
  /\ pc = "run"
  /\ ms \in ServeInstants
  /\ mode = "sta"
  /\ pc' = AfterClient(ms)
  /\ millis' = ms
  /\ response' = [op |-> "loadschedule", code |-> 200,
                  body |-> getString(nvsPoints, EmptyArrayText)]
  /\ UNCHANGED <<mode, fpContract, nvsWifi, nvsPoints, nvsTimezone,
                 schedulePoints, currentDutyPWM, pwmValue, targetDuty,
                 timezoneOffset, clock, lastNTPSync, lastPWMUpdate, updates,
                 lastSaved, lastWritten>>

(* GET /status, served at millis() = ms *)
handleStatus(ms) ==
  /\ pc = "run"
  /\ ms \in ServeInstants
  /\ mode = "sta"
  /\ pc' = AfterClient(ms)
  /\ millis' = ms
  /\ \E calc \in CachedDuty(schedulePoints, time(clock, ms), timezoneOffset,
                            fpContract),
        currentTime \in getCurrentTimeInHours(time(clock, ms), timezoneOffset) :
       /\ schedulePoints' = calc.points
       /\ response' = [op |-> "status", code |-> 200,
                       currentTimeHours |-> currentTime,
                       currentDuty |-> calc.duty,
                       schedulePoints |-> Len(calc.points)]
  /\ UNCHANGED <<mode, fpContract, nvsWifi, nvsPoints, nvsTimezone,
                 currentDutyPWM, pwmValue, targetDuty, timezoneOffset, clock,
                 lastNTPSync, lastPWMUpdate, updates, lastSaved, lastWritten>>

(* GET / while the schedule handlers are registered: the page shows the     *)
(* duty calculateCurrentDuty returns, and the call sorts the schedule       *)
handleMain(ms) ==
  /\ pc = "run"
  /\ ms \in ServeInstants
  /\ mode = "sta"
  /\ pc' = AfterClient(ms)
  /\ millis' = ms
  /\ \E calc \in CachedDuty(schedulePoints, time(clock, ms), timezoneOffset,
                            fpContract) :
       /\ schedulePoints' = calc.points
       /\ response' = [op |-> "main", code |-> 200, currentDuty |-> calc.duty]
  /\ UNCHANGED <<mode, fpContract, nvsWifi, nvsPoints, nvsTimezone,
                 currentDutyPWM, pwmValue, targetDuty, timezoneOffset, clock,
                 lastNTPSync, lastPWMUpdate, updates, lastSaved, lastWritten>>

(* the power fails and returns: the program starts again and the system     *)
(* clock is lost                                                            *)
PowerCycle ==
  /\ pc # "boot"
  /\ Restarted(Unsynced)
  /\ response' = NoResponse
  /\ UNCHANGED nvsWifi

Next ==
  \/ \E connectAt \in WifiPolls \cup {NoConnect} : Setup(connectAt)
  \/ Tick(MaxUpdates)
  \/ \E t \in ClockSamples : ClockSet(t)
  \/ \E ms \in ServeSamples : handleRoot(ms)
  \/ \E ms \in ServeSamples, hasSsid \in BOOLEAN, hasPassword \in BOOLEAN,
        arg \in WifiArgs : handleSave(ms, hasSsid, hasPassword, arg)
  \/ \E ms \in ServeSamples, hasArg \in BOOLEAN, offset \in OffsetArgs :
       handleSetTimezone(ms, hasArg, offset)
  \/ \E ms \in ServeSamples, hasArg \in BOOLEAN, schedule \in ScheduleTexts,
        written \in BOOLEAN :
       handleSaveSchedule(ms, hasArg, schedule, written, MaxUpdates)
  \/ \E ms \in ServeSamples : handleLoadSchedule(ms)
  \/ \E ms \in ServeSamples : handleStatus(ms)
  \/ \E ms \in ServeSamples : handleMain(ms)
  \/ PowerCycle

Spec == Init /\ [][Next]_vars

---------------------------------------------------------------------------
(* The device on a store that may drop a write: putString returns 0 and     *)
(* the key keeps its value; the handler does not look at the result.        *)

NextStore ==
  \/ \E connectAt \in WifiPolls : Setup(connectAt)
  \/ Tick(MaxUpdates)
  \/ \E ms \in ServeSamples, hasArg \in BOOLEAN, schedule \in StoreTexts,
        written \in BOOLEAN :
       handleSaveSchedule(ms, hasArg, schedule, written, MaxUpdates)
  \/ \E ms \in ServeSamples : handleLoadSchedule(ms)
  \/ \E ms \in ServeSamples : handleStatus(ms)
  \/ \E ms \in ServeSamples : handleMain(ms)
  \/ PowerCycle

SpecStore == Init /\ [][NextStore]_vars

---------------------------------------------------------------------------
(* The duty calculation on its own: the device restarts at noon with one   *)
(* of DutyTexts stored, SNTP sets the clock to one of DutyInstants, and the *)
(* device is asked for its status or its page.  The model follows loop()    *)
(* through its first update.                                                *)

InitDuty ==
  /\ pc = "boot"
  /\ mode = "ap"
  /\ fpContract \in BOOLEAN
  /\ nvsWifi \in {Stored(a) : a \in {b \in WifiArgs : b.ssid # ""}}
  /\ nvsPoints \in {Stored(t) : t \in DutyTexts}
  /\ nvsTimezone = NoKey
  /\ schedulePoints = <<>>
  /\ currentDutyPWM = F32Zero
  /\ pwmValue = 0
  /\ targetDuty = F32Zero
  /\ timezoneOffset = 0
  /\ clock = SetAt(At(12, 0, 0), 0)
  /\ millis = 0
  /\ lastNTPSync = 0
  /\ lastPWMUpdate = 0
  /\ response = NoResponse
  /\ updates = 0
  /\ lastSaved = nvsPoints
  /\ lastWritten = TRUE

NextDuty ==
  \/ \E connectAt \in WifiPolls : Setup(connectAt)
  \/ updates = 0 /\ Tick(MaxUpdates)
  \/ updates = 0 /\ \E t \in DutyInstants : ClockSet(t)
  \/ \E ms \in ServeSamples : handleStatus(ms)
  \/ \E ms \in ServeSamples : handleMain(ms)

SpecDuty == InitDuty /\ [][NextDuty]_vars

---------------------------------------------------------------------------
(* The fade on its own: the device restarts at 00:30 with a plateau         *)
(* schedule stored, the clock is then set to 13:30, and loop() runs.        *)
(* Within the first FadeSaveWindow updates a client may replace the         *)
(* schedule.                                                                *)

InitFade ==
  /\ pc = "boot"
  /\ mode = "ap"
  /\ fpContract \in BOOLEAN
  /\ nvsWifi \in {Stored(a) : a \in {b \in WifiArgs : b.ssid # ""}}
  /\ nvsPoints \in {Stored(t) : t \in FadeTexts}
  /\ nvsTimezone = NoKey
  /\ schedulePoints = <<>>
  /\ currentDutyPWM = F32Zero
  /\ pwmValue = 0
  /\ targetDuty = F32Zero
  /\ timezoneOffset = 0
  /\ clock = SetAt(FadeBootInstant, 0)
  /\ millis = 0
  /\ lastNTPSync = 0
  /\ lastPWMUpdate = 0
  /\ response = NoResponse
  /\ updates = 0
  /\ lastSaved = NoKey
  /\ lastWritten = FALSE

NextFade ==
  \/ \E connectAt \in WifiPolls : Setup(connectAt)
  \/ updates = 0 /\ ClockSet(FadeInstant)
  \/ clock.now = FadeInstant /\ Tick(FadeMaxUpdates)
  \/ /\ clock.now = FadeInstant
     /\ \E ms \in ServeSamples, schedule \in FadeTexts :
          handleSaveSchedule(ms, TRUE, schedule, TRUE, FadeSaveWindow)

SpecFade == InitFade /\ [][NextFade]_vars

---------------------------------------------------------------------------
(* The resync on its own: a device without a schedule boots, and loop()     *)
(* runs for an hour.  The updates of the hour are all alike (no points,     *)
(* output 0), so the model follows the first SyncWindow of them and then    *)
(* continues SyncWindow updates before the resync falls due.  loop() never  *)
(* stops, hence the fairness of Tick.                                       *)

(* the update at whose end syncTimeIfNeeded first finds the hour elapsed:   *)
(* the first update runs as loop() is entered, each later one a second      *)
(* after the one before                                                     *)
SyncFirstDue == NTP_SYNC_INTERVAL \div TickMs + 1

SyncMaxUpdates == SyncFirstDue + SyncWindow

SyncUpdates == (0..(SyncWindow - 1)) \cup ((SyncFirstDue - SyncWindow)..(SyncMaxUpdates - 1))

InitSync ==
  /\ pc \in {"boot", "run"}
  /\ mode = IF pc = "boot" THEN "ap" ELSE "sta"
  /\ fpContract \in BOOLEAN
  /\ nvsWifi \in {Stored(a) : a \in {b \in WifiArgs : b.ssid # ""}}
  /\ nvsPoints = NoKey
  /\ nvsTimezone = NoKey
  /\ schedulePoints = <<>>
  /\ currentDutyPWM = F32Zero
  /\ pwmValue = 0
  /\ targetDuty = F32Zero
  /\ timezoneOffset = 0
  /\ updates = IF pc = "boot" THEN 0 ELSE SyncFirstDue - SyncWindow
  /\ IF pc = "boot"
     THEN clock = Unsynced /\ millis = 0 /\ lastNTPSync = 0
     ELSE \E connectAt \in WifiPolls :
          \E o \in setupTime(Unsynced,
                             WifiWait(nvsWifi, BootDelayMs, connectAt).millis) :
            /\ clock = o.clock
            /\ lastNTPSync = o.millis
            /\ millis = o.millis + (updates - 1) * TickMs
  /\ lastPWMUpdate = IF pc = "boot" THEN 0 ELSE millis
  /\ response = NoResponse
  /\ lastSaved = NoKey
  /\ lastWritten = FALSE

TickSync == updates \in SyncUpdates /\ Tick(SyncMaxUpdates)

NextSync ==
  \/ \E connectAt \in WifiPolls : Setup(connectAt)
  \/ TickSync
  \/ \E t \in ClockSamples : ClockSet(t)
  \/ \E ms \in ServeSamples, hasArg \in BOOLEAN, offset \in OffsetArgs :
       handleSetTimezone(ms, hasArg, offset)
  \/ \E ms \in ServeSamples : handleStatus(ms)

SpecSync ==
  /\ InitSync
  /\ [][NextSync]_vars
  /\ WF_vars(\E connectAt \in WifiPolls : Setup(connectAt))
  /\ WF_vars(TickSync)

---------------------------------------------------------------------------
(* The local time on its own: a device without a schedule, its clock unset  *)
(* or at one of TimeInstants, is given offsets of TimeOffsetArgs and asked  *)
(* for its status.                                                          *)

TimeInstants ==
  {At(0, 0, 0), At(0, 59, 59), At(11, 30, 0), At(12, 0, 0), At(23, 59, 59)}

(* offsets of -12..12, an offset whose product with 3600 does not fit an    *)
(* int, and one whose sum with the clock does not fit 32 bits               *)
TimeOffsetArgs ==
  {<<"-", "1", "2">>, <<"-", "1">>, <<"0">>, <<"1">>, <<"1", "2">>,
   <<"5", "9", "6", "5", "2", "4">>, <<"1", "0", "0", "0", "0", "0">>}

InitTime ==
  /\ pc = "boot"
  /\ mode = "ap"
  /\ fpContract \in BOOLEAN
  /\ nvsWifi \in {Stored(a) : a \in {b \in WifiArgs : b.ssid # ""}}
  /\ nvsPoints = NoKey
  /\ nvsTimezone = NoKey
  /\ schedulePoints = <<>>
  /\ currentDutyPWM = F32Zero
  /\ pwmValue = 0
  /\ targetDuty = F32Zero
  /\ timezoneOffset = 0
  /\ clock \in {Unsynced} \cup {SetAt(n, 0) : n \in TimeInstants}
  /\ millis = 0
  /\ lastNTPSync = 0
  /\ lastPWMUpdate = 0
  /\ response = NoResponse
  /\ updates = 0
  /\ lastSaved = NoKey
  /\ lastWritten = FALSE

NextTime ==
  \/ \E connectAt \in WifiPolls : Setup(connectAt)
  \/ Tick(MaxUpdates)
  \/ \E t \in TimeInstants : ClockSet(t)
  \/ \E ms \in ServeSamples, hasArg \in BOOLEAN, offset \in TimeOffsetArgs :
       handleSetTimezone(ms, hasArg, offset)
  \/ \E ms \in ServeSamples : handleStatus(ms)

SpecTime == InitTime /\ [][NextTime]_vars

---------------------------------------------------------------------------
(* Properties                                                               *)

InPercent(x) == F32Le(F32Zero, x) /\ F32Le(x, F32FromInt(100))

(* the second of the day an "HH:MM" text names *)
SecondsOf(timeStr) ==
  LET colonPos == indexOf(timeStr, ":")
  IN 3600 * toInt(substring(timeStr, 0, colonPos))
     + 60 * toInt(substring(timeStr, colonPos + 1, Len(timeStr)))

(* the local second of the day the device reads *)
LocalSeconds ==
  ((time(clock, millis) % SecondsPerDay) + (timezoneOffset % 24) * 3600)
    % SecondsPerDay

(* C1: the duty a status request reports, which is calculateCurrentDuty on  *)
(* the loaded schedule at the current time, lies in [0, 100].  The code     *)
(* returns before.duty unclamped when a point lies exactly at the current   *)
(* time: [12:00 -> 150] read at 12:00:00 reports 150.                       *)
C1_DutyInPercent ==
  response.op = "status" => InPercent(response.currentDuty)

(* C2: a load request that follows a save of malformed text answers with    *)
(* the empty array.  The code stores the text before it parses it and       *)
(* answers with the stored text.                                            *)
C2_MalformedReadsEmpty ==
  (response.op = "loadschedule" /\ lastSaved = Stored(MalformedText))
    => response.body = EmptyArrayText

(* the schedule in memory has no points, the duty computed from it is 0 at *)
(* every time of day and offset, and the requests answered report it        *)
ModelDark ==
  /\ schedulePoints = <<>>
  /\ \A n \in DutyInstants, z \in OffsetValues :
       \A calc \in calculateCurrentDuty(schedulePoints, n, z, fpContract) :
         calc.duty = F32Zero
  /\ response.op = "status" => response.currentDuty = F32Zero
  /\ response.op = "saveschedule" /\ response.code = 200
       => targetDuty = F32Zero

(* C3 as stated: once a request carried malformed text, the schedule in     *)
(* memory has no points until another text is saved.  The handler does not  *)
(* look at the result of putString: when the store drops the write, the     *)
(* load parses the text the store kept and the schedule of before stays.    *)
C3_MalformedRequestEmpties ==
  lastSaved = Stored(MalformedText) => ModelDark

(* C3: while the text load parses is malformed, which it is once the store  *)
(* has performed the write of a request that carried malformed text, the    *)
(* schedule in memory has no points and the duty computed from it is 0 at   *)
(* every time of day and offset, until another text is stored.              *)
C3_MalformedEmptiesModel ==
  /\ (lastSaved = Stored(MalformedText) /\ lastWritten)
       => nvsPoints = Stored(MalformedText)
  /\ nvsPoints = Stored(MalformedText) => ModelDark

(* C3 happens: malformed text replaced a schedule under which the light     *)
(* was on, the store performed the write, and a status request followed     *)
C3_Witness ==
  /\ lastSaved = Stored(MalformedText)
  /\ lastWritten
  /\ response.op = "status"
  /\ F32Lt(F32FromInt(50), currentDutyPWM)

(* a schedule text whose elements all carry an "HH:MM" time *)
WellFormed(text) ==
  /\ text.valid
  /\ \A i \in 1..Len(text.entries) : indexOf(text.entries[i].time, ":") > 0

(* the (minute of the day, duty) pairs of a text, in order *)
MinutePairs(text) ==
  [i \in 1..Len(text.entries) |->
     <<SecondsOf(text.entries[i].time) \div 60, text.entries[i].duty>>]

(* C4 as stated: a load request answers with the (time, duty) pairs of the *)
(* last well-formed text saved.  When the store drops the write, the        *)
(* request is still answered with 200 and a load returns the text the       *)
(* store kept.                                                              *)
C4_RoundTripAlways ==
  (response.op = "loadschedule" /\ lastSaved.present
     /\ WellFormed(lastSaved.value))
    => /\ response.body.valid
       /\ MinutePairs(response.body) = MinutePairs(lastSaved.value)

(* C4: a load request answers with the (time, duty) pairs of the last       *)
(* well-formed text saved when the store performed the write of that text,  *)
(* whatever updates, status requests and restarts came in between; a save   *)
(* whose write the store drops leaves the stored text, and with it the      *)
(* answer of a load, as it was.                                             *)
C4_RoundTrip ==
  /\ []((response.op = "loadschedule" /\ lastSaved.present /\ lastWritten
          /\ WellFormed(lastSaved.value))
         => /\ response.body.valid
            /\ MinutePairs(response.body) = MinutePairs(lastSaved.value))
  /\ [][(response'.op = "saveschedule" /\ response'.code = 200
          /\ ~lastWritten')
         => nvsPoints' = nvsPoints]_vars

(* C4 happens: a two-point text in descending order was saved and written,  *)
(* the schedule in memory was sorted by a later calculation, and a load     *)
(* request followed                                                         *)
C4_Witness ==
  /\ response.op = "loadschedule"
  /\ lastSaved = Stored(ArrayText(<<Entry(HourText(18), 100),
                                    Entry(HourText(6), 50)>>))
  /\ lastWritten
  /\ Len(schedulePoints) = 2
  /\ schedulePoints[1].duty = 50
  /\ updates = MaxUpdates

(* C5: the offset in memory and the stored offset lie in -12..12.  The code *)
(* takes any integer the request carries: "13" is stored and used.          *)
C5_OffsetInRange ==
  /\ timezoneOffset \in -12..12
  /\ nvsTimezone.present => nvsTimezone.value \in -12..12

(* the fade of SpecFade while no text was saved: loop() runs at 13:30 and   *)
(* the duty moves from the first plateau of the stored text to the second   *)
FadePhase == pc # "boot" /\ lastSaved = NoKey /\ clock.now = FadeInstant

FadeFrom == nvsPoints.value.entries[1].duty

FadeGoal == nvsPoints.value.entries[4].duty

(* ceil(|g - c| / 0.2) for whole c and g *)
FadeTicks == 5 * AbsInt(FadeGoal - FadeFrom)

(* C6 as stated: the duty equals the target after exactly ceil(|g-c|/s)     *)
(* updates and not earlier, and stays there.  The float sum of 500 steps of *)
(* 0.2f from 0 falls short of 100 by a rounding error: update 501 snaps.    *)
C6_ExactTicks ==
  FadePhase => (currentDutyPWM = F32FromInt(FadeGoal) <=> updates >= FadeTicks)

(* C6 amended: with the target held, the duty differs from the target       *)
(* before ceil(|g-c|/s) updates, equals it after one update more at the     *)
(* latest, and equals it on every later update.                             *)
C6_Convergence ==
  FadePhase
    => /\ updates < FadeTicks => currentDutyPWM # F32FromInt(FadeGoal)
       /\ updates > FadeTicks => currentDutyPWM = F32FromInt(FadeGoal)

(* C6 happens: the fade from 0 to 100 has arrived after 501 updates *)
C6_Witness ==
  /\ FadePhase
  /\ FadeFrom = 0
  /\ FadeGoal = 100
  /\ updates = FadeTicks + 1
  /\ currentDutyPWM = F32FromInt(100)

(* the rounding error a float sum below 256 can carry: 2^-16 *)
Tolerance == F32Div(F32FromInt(1), F32FromInt(65536))

Near(a, b) == F32Le(F32Abs(F32Sub(a, b)), Tolerance)

(* a step that calls updatePWMFromSchedule: a pass of loop() or a save *)
FadeUpdate == updates' = updates + 1

(* C7 as stated: no update changes the duty by more than fadeStep.  The     *)
(* float sum current + fadeStep is rounded, and the rounded sum can lie     *)
(* further than fadeStep from current.                                      *)
C7_StepBound ==
  [][FadeUpdate
       => F32Le(F32Abs(F32Sub(currentDutyPWM', currentDutyPWM)), fadeStep)]_vars

(* C7 amended: an update sets the duty to the target when the target is     *)
(* within fadeStep, and otherwise to the float sum or difference of the     *)
(* duty and fadeStep, which does not pass the target and lies within        *)
(* fadeStep plus the rounding error of the duty.                            *)
C7_FadeStep ==
  [][FadeUpdate
       => LET t == targetDuty'
              c == currentDutyPWM
              n == currentDutyPWM'
          IN IF F32Le(F32Abs(F32Sub(t, c)), fadeStep) THEN n = t
             ELSE /\ F32Lt(c, t) => n = F32Add(c, fadeStep) /\ F32Le(n, t)
                  /\ F32Lt(t, c) => n = F32Sub(c, fadeStep) /\ F32Le(t, n)
                  /\ F32Le(F32Abs(F32Sub(n, c)), F32Add(fadeStep, Tolerance))]_vars

(* C7 happens: a save turned a rising fade around, and the duty is on its   *)
(* way down                                                                 *)
C7_Witness ==
  /\ lastSaved # NoKey
  /\ updates > FadeSaveWindow
  /\ F32Lt(targetDuty, currentDutyPWM)
  /\ F32Lt(F32Zero, currentDutyPWM)

(* C8: currentDutyPWM lies in [0, 100].  setup() assigns the value of       *)
(* calculateCurrentDuty, which C1 shows can be 150.                         *)
C8_CurrentInPercent == InPercent(currentDutyPWM)

(* the stored schedule has one point *)
SinglePoint ==
  /\ nvsPoints.present
  /\ nvsPoints.value.valid
  /\ Len(nvsPoints.value.entries) = 1

(* the float x limited to [0, 100] *)
Limited(x) ==
  IF F32Lt(x, F32Zero) THEN F32Zero
  ELSE IF F32Lt(F32FromInt(100), x) THEN F32FromInt(100)
  ELSE x

(* the duty a status request reports lies on the curve through (0, 0),      *)
(* (t, d) and (24, 0), up to float rounding, the curve's value off the      *)
(* point being limited to [0, 100] or not; at (12:00, 80) it is 40 at 06:00 *)
(* and 18:00, 80 at 12:00, 0 at 00:00 and below 0.01 at 23:59:59            *)
OnSinglePointCurve(limited) ==
  LET t        == SecondsOf(nvsPoints.value.entries[1].time)
      d        == nvsPoints.value.entries[1].duty
      h        == LocalSeconds
      duty     == response.currentDuty
      limit(x) == IF limited THEN Limited(x) ELSE x
  IN /\ h = t => duty = F32FromInt(d)
     /\ h < t => Near(duty, limit(F32Div(F32FromInt(d * h), F32FromInt(t))))
     /\ h > t => Near(duty, limit(F32Div(F32FromInt(d * (SecondsPerDay - h)),
                                         F32FromInt(SecondsPerDay - t))))
     /\ (t = 12 * 3600 /\ d = 80)
          => /\ h = 6 * 3600 => duty = F32FromInt(40)
             /\ h = 18 * 3600 => duty = F32FromInt(40)
             /\ h = 0 => duty = F32Zero
             /\ h = SecondsPerDay - 1
                  => /\ F32Le(F32Zero, duty)
                     /\ F32Lt(duty, F32Div(F32FromInt(1), F32FromInt(100)))

(* C9 as stated: with the single point (t, d) the reported duty is d at t,  *)
(* d*h/t before t and d*(24-h)/(24-t) after t.  The interpolated value is   *)
(* constrained to [0, 100] and load takes any integer duty: (12:00, 150)    *)
(* read at 11:59:59 reports 100, not 149.99.                                *)
C9_UnlimitedCurve ==
  (response.op = "status" /\ SinglePoint) => OnSinglePointCurve(FALSE)

(* C9: with the single point (t, d) the reported duty is d at t, and off t  *)
(* it is d*h/t before t and d*(24-h)/(24-t) after t limited to [0, 100],    *)
(* up to float rounding, which for d in 0..100 is the curve itself; for     *)
(* (12:00, 80) it is 40 at 06:00 and 18:00, 80 at 12:00, 0 at 00:00 and     *)
(* below 0.01 at 23:59:59.                                                  *)
C9_SinglePointCurve ==
  (response.op = "status" /\ SinglePoint) => OnSinglePointCurve(TRUE)

(* C9 happens: the point (12:00, 80) read at 06:00 reports 40 *)
C9_Witness ==
  /\ response.op = "status"
  /\ nvsPoints = Stored(ArrayText(<<Entry(HourText(12), 80)>>))
  /\ LocalSeconds = 6 * 3600
  /\ response.currentDuty = F32FromInt(40)

(* the positions i < j of the two elements of es that share a time no       *)
(* third element has                                                        *)
DuplicatePairs(es) ==
  {ij \in (1..Len(es)) \X (1..Len(es)) :
     /\ ij[1] < ij[2]
     /\ es[ij[1]].time = es[ij[2]].time
     /\ \A k \in 1..Len(es) :
          es[k].time = es[ij[1]].time => k \in {ij[1], ij[2]}}

(* C10: when two points of the schedule share the time t, the duty reported *)
(* at t is the duty of the later of the two in the text.  std::sort does    *)
(* not keep the order of equal elements in a schedule of more than 16       *)
(* points: DescendingText read at 12:00 reports the duty of the earlier.    *)
C10_LaterDuplicateWins ==
  (response.op = "status" /\ nvsPoints.present /\ nvsPoints.value.valid)
    => \A ij \in DuplicatePairs(nvsPoints.value.entries) :
         LocalSeconds = SecondsOf(nvsPoints.value.entries[ij[1]].time)
           => response.currentDuty
                = F32FromInt(nvsPoints.value.entries[ij[2]].duty)

(* C11: while the schedule in memory has no points, calculateCurrentDuty    *)
(* returns 0 at every time of day and offset, a status request reports 0,   *)
(* and the target of the latest fade update is 0.                           *)
C11_EmptyModelDark ==
  (pc # "boot" /\ schedulePoints = <<>>)
    => /\ \A n \in DutyInstants, z \in OffsetValues :
            \A calc \in calculateCurrentDuty(schedulePoints, n, z, fpContract) :
              calc.duty = F32Zero
       /\ response.op = "status" => response.currentDuty = F32Zero
       /\ targetDuty = F32Zero

(* C11 happens: the empty array replaced a schedule under which the light   *)
(* was on; the fade now runs toward 0 and a status request followed         *)
C11_Witness ==
  /\ schedulePoints = <<>>
  /\ lastSaved = Stored(EmptyArrayText)
  /\ updates > 0
  /\ F32Lt(F32Zero, currentDutyPWM)
  /\ response.op = "status"

(* a request that arrives without its field *)
MissingField ==
  \/ \E ms \in ServeSamples, schedule \in ScheduleTexts :
       handleSaveSchedule(ms, FALSE, schedule, TRUE, MaxUpdates)
  \/ \E ms \in ServeSamples, offset \in OffsetArgs :
       handleSetTimezone(ms, FALSE, offset)

(* C12: a /saveschedule request without "schedule" and a /settimezone       *)
(* request without "offset" are answered with 400 and leave the schedule    *)
(* in memory, both preferences, the offset and the output as they were.     *)
C12_MissingFieldRejected ==
  [][MissingField
       => /\ response'.code = 400
          /\ UNCHANGED <<schedulePoints, nvsPoints, nvsTimezone,
                         timezoneOffset, currentDutyPWM, pwmValue,
                         targetDuty>>]_vars

(* C12 happens: a request was refused while a schedule was loaded, the      *)
(* light was on and an offset was set                                       *)
C12_Witness ==
  /\ response.op \in {"saveschedule", "settimezone"}
  /\ response.code = 400
  /\ Len(schedulePoints) > 0
  /\ pwmValue > 0
  /\ timezoneOffset # 0

(* the step answers a /saveschedule request with 200 *)
SaveAccepted == response'.op = "saveschedule" /\ response'.code = 200

(* the hour has elapsed at the resync check of the update that comes next *)
SyncDue == UpdateInstant(millis, lastPWMUpdate) - lastNTPSync >= NTP_SYNC_INTERVAL

(* C14: in loop(), lastNTPSync changes only in an update at whose check the *)
(* hour has elapsed; such an update ends with lastNTPSync equal to          *)
(* millis(), whether the clock was set or not, and every other update       *)
(* leaves the marker and the clock alone and ends at the instant it began.  *)
C14_ResyncWhenDue ==
  [][(pc # "boot" /\ pc' # "boot")
       => /\ lastNTPSync' # lastNTPSync => SyncDue /\ updates' = updates + 1
          /\ (updates' = updates + 1 /\ SyncDue)
               => /\ lastNTPSync' = millis'
                  /\ millis' >= UpdateInstant(millis, lastPWMUpdate)
                  /\ millis' >= lastNTPSync + NTP_SYNC_INTERVAL
          /\ (updates' = updates + 1 /\ ~SyncDue)
               => /\ lastNTPSync' = lastNTPSync
                  /\ clock' = clock
                  /\ millis' = UpdateInstant(millis, lastPWMUpdate)]_vars

(* C14 happens: the resync fell due, ten polls went unanswered, and a       *)
(* later update ran without another resync                                  *)
C14_Witness ==
  /\ pc = "run"
  /\ ~clock.synced
  /\ lastNTPSync >= NTP_SYNC_INTERVAL
  /\ millis = lastNTPSync + TickMs
  /\ updates > SyncFirstDue

(* C15: no step of the running device takes longer than one second of      *)
(* loop() and NtpMaxRetry one-second polls, setup() takes no longer than    *)
(* its delay, the WiFi wait and NtpMaxRetry polls and ends, and after every *)
(* update followed, the resync included, a further update is made.          *)
C15_SyncTerminates ==
  /\ [][pc # "boot" /\ pc' # "boot"
         => millis' - millis <= TickMs + NtpMaxRetry * NtpPollMs]_vars
  /\ [][pc = "boot" /\ pc' = "run"
         => millis' <= BootDelayMs + WifiTimeoutMs + NtpMaxRetry * NtpPollMs]_vars
  /\ (pc = "boot") ~> (pc # "boot")
  /\ \A u \in SyncUpdates : (pc # "boot" /\ updates = u) ~> (updates = u + 1)

(* C15 happens: the clock was never set, the resync gave up after           *)
(* NtpMaxRetry polls, and the updates went on to the last one followed      *)
C15_Witness ==
  /\ pc = "run"
  /\ ~clock.synced
  /\ lastNTPSync >= NTP_SYNC_INTERVAL + NtpMaxRetry * NtpPollMs
  /\ updates = SyncMaxUpdates

(* the float nearest (100 * level + half) / 4095: the duty at which the     *)
(* scaled value passes from one level to the next                           *)
LevelEdge(level, half) ==
  F32Div(F32FromInt(100 * level + half), F32FromInt(PwmMax))

(* C16: the level written to the LEDC channel is an integer of 0..4095, it  *)
(* is the integer nearest to d / 100 * 4095 for d the output duty           *)
(* constrained to [0, 100], 0 for d = 0 and 4095 for d = 100.               *)
C16_EmittedLevel ==
  pc # "boot"
    => \E d \in {constrain(currentDutyPWM)} :
         /\ pwmValue \in 0..PwmMax
         /\ F32Le(LevelEdge(pwmValue, -50), d)
         /\ F32Le(d, LevelEdge(pwmValue, 50))
         /\ d = F32Zero => pwmValue = 0
         /\ d = F32FromInt(100) => pwmValue = PwmMax

(* C16 happens: the output duty is 150 and full scale was written *)
C16_Witness ==
  /\ pc = "run"
  /\ currentDutyPWM = F32FromInt(150)
  /\ pwmValue = PwmMax

(* the float of the time of day that lies k hours after the UTC second u   *)
(* of the day, hours taken modulo 24                                        *)
ShiftedHours(u, k) ==
  F32Div(F32FromInt((((u \div 3600) + k) % 24) * 3600 + (u % 3600)),
         F32FromInt(3600))

(* C17: the hours a status request reports lie in [0, 24) whatever the      *)
(* offset, and with an offset k of -12..12 they are the hours of the UTC    *)
(* time of day shifted by k hours modulo 24.                                *)
C17_LocalHours ==
  response.op = "status"
    => /\ F32Le(F32Zero, response.currentTimeHours)
       /\ F32Lt(response.currentTimeHours, F32FromInt(24))
       /\ timezoneOffset \in -12..12
            => response.currentTimeHours
                 = ShiftedHours(time(clock, millis) % SecondsPerDay,
                                timezoneOffset)

(* C17 happens: at 00:59:59 UTC with offset -1 the device reports 23:59:59  *)
(* of the day before                                                        *)
C17_Witness ==
  /\ response.op = "status"
  /\ timezoneOffset = -1
  /\ clock.synced
  /\ time(clock, millis) = At(0, 59, 59)
  /\ F32Lt(F32FromInt(23), response.currentTimeHours)

(* two points of pts lie at the second s of the day *)
DuplicateTime(pts, s) ==
  \E i, j \in 1..Len(pts) :
    /\ i < j
    /\ pts[i].time = pts[j].time
    /\ pts[i].time \in getCurrentTimeInHours(s, 0)

(* points lie whole minutes apart and the duties of the inputs reach 150:   *)
(* a continuous curve through them moves by at most 2.5 in a second         *)
SecondBound == F32FromInt(3)

(* C18: at a second of the day that is not the time of two points, the duty *)
(* reported differs from the duty of the second before and of the second    *)
(* after (unless that is the time of two points) by no more than the slope  *)
(* of the curve allows.  The code returns the duty of a point unclamped at  *)
(* the point's own second and clamps around it: [12:00 -> 150] reports 150  *)
(* at 12:00:00 and 100 at 11:59:59 and 12:00:01.                            *)
C18_Continuous ==
  response.op = "status"
    => \A delta \in {-1, 1} :
         \E s \in {LocalSeconds} :
           ( /\ s + delta \in 0..(SecondsPerDay - 1)
             /\ ~DuplicateTime(schedulePoints, s)
             /\ ~DuplicateTime(schedulePoints, s + delta) )
             => \A calc \in calculateCurrentDuty(schedulePoints,
                                                  time(clock, millis) + delta,
                                                  timezoneOffset, fpContract) :
                  F32Le(F32Abs(F32Sub(calc.duty, response.currentDuty)),
                        SecondBound)

(* the number of times each point occurs in pts *)
PointBag(pts) ==
  [p \in {pts[i] : i \in 1..Len(pts)} |->
     Cardinality({i \in 1..Len(pts) : pts[i] = p})]

(* C19: while the schedule handlers are registered, the schedule in memory  *)
(* holds the points loadScheduleFromPreferences makes of the value stored   *)
(* under schedule/points, each as often, also after a save whose write the  *)
(* store dropped; a status request reports their number and a load request  *)
(* answers with the stored text.                                            *)
C19_ModelIsStoredSchedule ==
  (pc # "boot" /\ mode = "sta")
    => /\ PointBag(schedulePoints)
            = PointBag(loadScheduleFromPreferences(nvsPoints))
       /\ response.op = "status"
            => response.schedulePoints
                 = Len(loadScheduleFromPreferences(nvsPoints))
       /\ response.op = "loadschedule"
            => response.body = getString(nvsPoints, EmptyArrayText)

(* C19 happens: the store dropped the write of a save; the request was      *)
(* answered with 200 and the schedule in memory is the two-point schedule   *)
(* stored before                                                            *)
C19_Witness ==
  /\ response.op = "saveschedule"
  /\ response.code = 200
  /\ lastSaved # nvsPoints
  /\ nvsPoints.present
  /\ Len(schedulePoints) = 2

Reverse(pts) == [i \in 1..Len(pts) |-> pts[Len(pts) + 1 - i]]

DistinctTimes(pts) ==
  \A i, j \in 1..Len(pts) : pts[i].time = pts[j].time => i = j

(* the points as loaded from the store and in the opposite order *)
SuppliedOrders ==
  {loadScheduleFromPreferences(nvsPoints),
   Reverse(loadScheduleFromPreferences(nvsPoints))}

(* C20: a status request leaves the output duty, the level written, the     *)
(* fade target, the offset, both preferences, the clock and the resync      *)
(* marker as they were and keeps every schedule point as often as it was    *)
(* there; when the times of the points are distinct, the duty it reports is *)
(* the duty calculateCurrentDuty gives on the points in the order loaded    *)
(* and in the opposite order, and both calls keep the points.               *)
C20_StatusReadsOnly ==
  [][response'.op = "status"
       => /\ UNCHANGED <<currentDutyPWM, pwmValue, targetDuty, timezoneOffset,
                         nvsPoints, nvsTimezone, clock, lastNTPSync,
                         lastPWMUpdate>>
          /\ PointBag(schedulePoints') = PointBag(schedulePoints)
          /\ DistinctTimes(schedulePoints)
               => \A pts \in SuppliedOrders :
                    \E calc \in calculateCurrentDuty(pts, time(clock, millis'),
                                                     timezoneOffset,
                                                     fpContract) :
                      /\ calc.duty = response'.currentDuty
                      /\ PointBag(calc.points) = PointBag(pts)]_vars

(* C20 happens: the stored text lists 12:00 before 06:00, the schedule in   *)
(* memory is in time order, the light is on and a status request was served *)
C20_Witness ==
  /\ response.op = "status"
  /\ nvsPoints = Stored(ArrayText(<<Entry(HourText(12), 80), Entry(HourText(6), 150)>>))
  /\ Len(schedulePoints) = 2
  /\ F32Lt(schedulePoints[1].time, schedulePoints[2].time)
  /\ pwmValue > 0

=============================================================================
